---- MODULE Spec2Model ----
(***************************************************************************)
(* A model of iris/hocr.py: the suggestion annotator                       *)
(* (extract_suggestions, insert_suggestions, insert_suggestion) over an    *)
(* lxml element tree, and the geometry extractor (extract_bboxes) over the *)
(* title attributes of a parsed hOCR file.                                 *)
(*                                                                         *)
(* A unicode string is the sequence of its code points, so that the        *)
(* slicing, splitting, formatting, parsing and hashing the code does on    *)
(* strings is computed and not assumed.  The code is Python 2 (unicode,    *)
(* iteritems), and what it leaves to the interpreter is modelled as        *)
(* CPython 2.7 does it: unicode(float) is the 12-significant-digit form,   *)
(* float(unicode) reads the nearest double, and a dict iterates in the     *)
(* order of its hash table.                                                *)
(*                                                                         *)
(* An element is a record [tag, attrib, text, children]; attrib is a       *)
(* record whose fields are the attributes present.  An absent text (None)  *)
(* and an empty text are both <<>>: in every state modelled here the code  *)
(* reads the text only of nodes whose text is a string.                    *)
(*                                                                         *)
(* algorithms.unibarrier, the decorator of the three suggestion functions, *)
(* and algorithms.sanitize are not in hocr.py.  Every string given to a    *)
(* call here is a unicode string, and sanitize is what the glossary of the *)
(* specification says: leading and trailing whitespace and control         *)
(* characters removed.                                                     *)
(***************************************************************************)
EXTENDS Integers, Sequences, FiniteSets, TLC

VARIABLES
    tree,     \* the parsed document the caller holds: the sequence of word nodes
    orig,     \* the tree as it was parsed (history: never changes)
    before,   \* the tree before the last call (history)
    call,     \* the last call: [op, path, arg, exc]
    ret,      \* what the last call returned: [val, exc]
    log,      \* per word: the suggestions given to the insert calls made on it
    hocr,     \* the nodes of the hOCR file extract_bboxes parses, in document order
    bcall,    \* the last extract_bboxes call: [xpaths, done]
    results   \* what it returned: [exc, map, keys]

vars == <<tree, orig, before, call, ret, log, hocr, bcall, results>>

\* ---------------------------------------------------------------- bounds

\* Longest suggestion list given to one insert_suggestions call.
MaxLen == 2
\* Most candidate nodes in the tree (the calls that would exceed it are not made).
MaxCands == 2

\* ---------------------------------------------------------------- strings

\* The characters of ASCII that print, in the order of their code points:
\* those from the space, 32, to the underscore, and those from "a", 97, on.
Printable ==
    <<" ", "!", "\"", "#", "$", "%", "&", "'", "(", ")", "*", "+", ",", "-", ".", "/",
      "0", "1", "2", "3", "4", "5", "6", "7", "8", "9", ":", ";", "<", "=", ">", "?",
      "@", "A", "B", "C", "D", "E", "F", "G", "H", "I", "J", "K", "L", "M", "N", "O",
      "P", "Q", "R", "S", "T", "U", "V", "W", "X", "Y", "Z", "[", "\\", "]", "^", "_">>

Small ==
    <<"a", "b", "c", "d", "e", "f", "g", "h", "i", "j", "k", "l", "m", "n", "o",
      "p", "q", "r", "s", "t", "u", "v", "w", "x", "y", "z", "{", "|", "}", "~">>

\* ord(c) of a printable ASCII character.
Ord(c) ==
    IF \E i \in 1..Len(Printable) : Printable[i] = c
    THEN 31 + CHOOSE i \in 1..Len(Printable) : Printable[i] = c
    ELSE 96 + CHOOSE i \in 1..Len(Small) : Small[i] = c

\* The unicode string of the printable ASCII characters s: u'...'.
U(s) == [i \in 1..Len(s) |-> Ord(s[i])]

Tab == 9
Newline == 10

Zeros(n) == [i \in 1..n |-> 0]

Min(a, b) == IF a <= b THEN a ELSE b
Max(a, b) == IF a >= b THEN a ELSE b

\* The characters unicode.isspace() is true of (Python 2.7, Unicode 5.2), the
\* whitespace unicode.strip() removes and float() ignores.
Whitespace ==
    (9..13) \cup (28..32) \cup {133, 160, 5760, 6158} \cup (8192..8202)
        \cup {8232, 8233, 8239, 8287, 12288}

\* The control characters (category Cc).
Control == (0..31) \cup (127..159)

\* The indices of the first and of the last character of s that is not in cs.
FirstNotIn(s, cs) == CHOOSE i \in 1..Len(s) : s[i] \notin cs /\ \A j \in 1..(i - 1) : s[j] \in cs
LastNotIn(s, cs) ==
    CHOOSE i \in 1..Len(s) : s[i] \notin cs /\ \A j \in (i + 1)..Len(s) : s[j] \in cs

\* s without the characters of cs it starts and ends with.
Strip(s, cs) ==
    IF \A i \in 1..Len(s) : s[i] \in cs THEN <<>>
    ELSE SubSeq(s, FirstNotIn(s, cs), LastNotIn(s, cs))

\* algorithms.sanitize: leading and trailing whitespace and control characters
\* removed.
sanitize(s) == Strip(s, Whitespace \cup Control)

\* The ASCII digits, [0-9] of a pattern and the digits of int().
IsDigit(c) == c \in 48..57
DigitChar(d) == 48 + d
DigitVal(c) == c - 48

\* s[n:] of Python, n >= 0.
SliceFrom(s, n) == SubSeq(s, n + 1, Len(s))

\* unicode(n) of a non-negative integer.
RECURSIVE NatStr(_)
NatStr(n) ==
    IF n < 10 THEN <<DigitChar(n)>> ELSE NatStr(n \div 10) \o <<DigitChar(n % 10)>>

\* int(s) of a non-empty string of digits (below 2^31).
RECURSIVE NatVal(_)
NatVal(s) ==
    IF s = <<>> THEN 0
    ELSE 10 * NatVal(SubSeq(s, 1, Len(s) - 1)) + DigitVal(s[Len(s)])

AllDigits(s) == \A i \in 1..Len(s) : IsDigit(s[i])

\* ---------------------------------------------------------------- floats
\* A float is the decimal it prints as in full (its repr, the shortest decimal
\* that reads back as the same double): [kind, neg, ds, e], where kind is
\* "num", "inf" or "nan", neg is the sign, ds the significant digits, without
\* zeros before or after them, and e the decimal exponent of the first:
\* d1.d2d3... * 10^e.  Zero has no digits.

Sci(ds, e) == [kind |-> "num", neg |-> FALSE, ds |-> ds, e |-> e]
Zero == Sci(<<>>, 0)
Inf(neg) == [kind |-> "inf", neg |-> neg, ds |-> <<>>, e |-> 0]
NaN == [kind |-> "nan", neg |-> FALSE, ds |-> <<>>, e |-> 0]
Negative(x) == [x EXCEPT !.neg = TRUE]

\* The digits of a natural number.
NatDigits(n) == [i \in 1..Len(NatStr(n)) |-> DigitVal(NatStr(n)[i])]

\* The number of zeros ds starts with, and the number it ends with.
LeadingZeros(ds) ==
    LET nz == {i \in 1..Len(ds) : ds[i] # 0}
    IN  IF nz = {} THEN Len(ds) ELSE (CHOOSE i \in nz : \A j \in nz : i <= j) - 1

TrailingZeros(ds) == LeadingZeros([i \in 1..Len(ds) |-> ds[Len(ds) + 1 - i]])

\* ds without the zeros it ends with, and without those it starts with.
StripZeros(ds) == SubSeq(ds, 1, Len(ds) - TrailingZeros(ds))
StripLeadingZeros(ds) == SubSeq(ds, LeadingZeros(ds) + 1, Len(ds))

\* The float whose digits are ds, not all zeros, the point being after the
\* first n of them and the whole times 10^ex.
SciOf(ds, n, ex) == Sci(StripZeros(StripLeadingZeros(ds)), n - LeadingZeros(ds) - 1 + ex)

\* The float written ip.fr in decimal digits, ip a natural number: 0.9 is
\* Float(0, <<9>>).
Float(ip, fr) ==
    IF ip = 0 /\ LeadingZeros(fr) = Len(fr) THEN Zero
    ELSE SciOf(NatDigits(ip) \o fr, Len(NatDigits(ip)), 0)

\* The significant digits unicode(float) keeps in Python 2 ('%.12g').
FloatPrec == 12

\* The number of digits top ds ends with.
TrailingTops(ds, top) == LeadingZeros([j \in 1..Len(ds) |-> top - ds[Len(ds) + 1 - j]])

\* ds with one more at digit p and zeros after it.
CarriedAt(ds, p) ==
    [i \in 1..Len(ds) |-> IF i < p THEN ds[i] ELSE IF i = p THEN ds[i] + 1 ELSE 0]

\* ds + 1, of digits in the base of which top is the last digit.
Succ(ds, top) ==
    IF TrailingTops(ds, top) = Len(ds) THEN <<1>> \o Zeros(Len(ds))
    ELSE CarriedAt(ds, Len(ds) - TrailingTops(ds, top))

\* ds with one less at digit p and top after it.
BorrowedAt(ds, p, top) ==
    [i \in 1..Len(ds) |-> IF i < p THEN ds[i] ELSE IF i = p THEN ds[i] - 1 ELSE top]

\* ds - 1, of digits not all zeros, without leading zeros.
Pred(ds, top) == StripLeadingZeros(BorrowedAt(ds, Len(ds) - TrailingZeros(ds), top))

\* a < b, of two numbers given by their digits, in whatever base, without
\* leading zeros.
DigitsLess(a, b) ==
    \/ Len(a) < Len(b)
    \/ /\ Len(a) = Len(b)
       /\ \E i \in 1..Len(a) : a[i] < b[i] /\ \A j \in 1..(i - 1) : a[j] = b[j]

\* Digit i of ds, the digits before the first and after the last being 0.
DigitAt(ds, i) == IF i \in 1..Len(ds) THEN ds[i] ELSE 0

\* The number the seven digits of ds from digit i on write.
SevenFrom(ds, i) ==
    DigitAt(ds, i) * 1000000 + DigitAt(ds, i + 1) * 100000 + DigitAt(ds, i + 2) * 10000
        + DigitAt(ds, i + 3) * 1000 + DigitAt(ds, i + 4) * 100 + DigitAt(ds, i + 5) * 10
        + DigitAt(ds, i + 6)

\* The arithmetic of doubles is done on limbs, digits in base 10^7: 10^7 is a
\* multiple of 2^j for j up to 7, and a multiple of 1/2^j then has no more
\* than seven decimal digits after the point, which is one limb.
TenTo7 == 10000000
MaxShift == 7
LimbDigits == 7

\* The limbs that hold n decimal digits.
LimbsFor(n) == (n + LimbDigits - 1) \div LimbDigits

\* The limbs of the natural number whose decimal digits are ds.
AsLimbs(ds) ==
    [i \in 1..LimbsFor(Len(ds)) |->
        SevenFrom(ds, Len(ds) - LimbDigits * (LimbsFor(Len(ds)) + 1 - i) + 1)]

\* The decimal digits of the limbs ls.
DigitsOfLimbs(ls) ==
    [i \in 1..(LimbDigits * Len(ls)) |->
        (ls[(i - 1) \div LimbDigits + 1] \div 10^(LimbDigits - 1 - ((i - 1) % LimbDigits))) % 10]

\* A number in limbs, [n, k]: the natural number whose limbs are n, without
\* leading zeros, over 10^(7k).  The decimal ds / 10^k in limbs:
NumOf(ds, k) ==
    [n |-> StripLeadingZeros(AsLimbs(ds \o Zeros(LimbDigits * LimbsFor(k) - k))),
     k |-> LimbsFor(k)]

\* 2^j times the number whose limbs are ls, j <= 7: what is carried into a
\* limb is a matter of the limb after it, and what is carried out of the first
\* makes one limb more.
TimesTwoTo(j, ls) ==
    StripLeadingZeros(
        <<(2^j * DigitAt(ls, 1)) \div TenTo7>> \o
        [i \in 1..Len(ls) |-> (2^j * ls[i] + (2^j * DigitAt(ls, i + 1)) \div TenTo7) % TenTo7])

\* 10^7 times the number whose limbs are ls over 2^j, j <= 7: what is left
\* over of the limbs before a limb is a matter of the limb before it.
OverTwoTo(j, ls) ==
    StripLeadingZeros(
        [i \in 1..(Len(ls) + 1) |->
            ((DigitAt(ls, i - 1) % 2^j) * TenTo7 + DigitAt(ls, i)) \div 2^j])

\* 2^(7a) times the number whose limbs are n.
RECURSIVE Doublings(_, _)
Doublings(n, a) ==
    IF n = <<>> \/ a = 0 THEN n
    ELSE IF a = 1 THEN TimesTwoTo(MaxShift, n)
    ELSE Doublings(Doublings(n, a \div 2), a - a \div 2)

\* 10^(7a) times the number whose limbs are n, over 2^(7a).
RECURSIVE Halvings(_, _)
Halvings(n, a) ==
    IF n = <<>> \/ a = 0 THEN n
    ELSE IF a = 1 THEN OverTwoTo(MaxShift, n)
    ELSE Halvings(Halvings(n, a \div 2), a - a \div 2)

\* The number x times 2^s, exactly.
Scaled(x, s) ==
    IF s >= 0
    THEN [n |-> TimesTwoTo(s % MaxShift, Doublings(x.n, s \div MaxShift)), k |-> x.k]
    ELSE IF (0 - s) % MaxShift = 0
    THEN [n |-> Halvings(x.n, (0 - s) \div MaxShift), k |-> x.k + (0 - s) \div MaxShift]
    ELSE [n |-> OverTwoTo((0 - s) % MaxShift, Halvings(x.n, (0 - s) \div MaxShift)),
          k |-> x.k + (0 - s) \div MaxShift + 1]

\* The integer part of the number x, in limbs without leading zeros, and its
\* x.k limbs after the point.
IntPart(x) == IF Len(x.n) <= x.k THEN <<>> ELSE SubSeq(x.n, 1, Len(x.n) - x.k)
FracPart(x) ==
    IF Len(x.n) >= x.k THEN SubSeq(x.n, Len(x.n) - x.k + 1, Len(x.n))
    ELSE Zeros(x.k - Len(x.n)) \o x.n

\* A double is [m, s], the number m / 2^s: m is the significand in limbs,
\* 2^52 <= m < 2^53 and -971 <= s <= 1074, or m < 2^52 and s = 1074
\* (subnormal, and zero).
TwoTo52 == <<45, 359962, 7370496>>
TwoTo53 == <<90, 719925, 4740992>>
MaxScale == 1074
MinScale == -971

\* q is a 53-bit significand.
IsSignificand(q) == ~DigitsLess(q, TwoTo52) /\ DigitsLess(q, TwoTo53)

\* A number of which x is the first significant digit's place, 10^x <= v <
\* 10^(x + 1), is 2^LogTwo(x) at least and less than 2^(LogTwo(x) + 5): the
\* logarithm of 10 to the base 2 is between 3.321928 and 3.321929.
LogTwo(x) ==
    IF x >= 0 THEN (x * 3321928) \div 1000000 ELSE (x * 3321929) \div 1000000

\* The doublings, jmax at most, that make the integer part of w a 53-bit
\* significand; jmax when more would be needed.
LastShift(w, jmax) ==
    IF \E j \in 0..jmax : IsSignificand(IntPart(Scaled(w, j)))
    THEN CHOOSE j \in 0..jmax : IsSignificand(IntPart(Scaled(w, j)))
    ELSE jmax

\* The number v = x * 2^s cut at the point.
CutAtPoint(v, s) == [q |-> IntPart(v), rem |-> FracPart(v), s |-> s]

\* w = x * 2^s0 doubled j times, cut at the point.
CutShifted(w, j, s0) == CutAtPoint(Scaled(w, j), s0 + j)

\* w = x * 2^s0, doubled until its integer part is a 53-bit significand or
\* the scale is MaxScale.
CutAfter(w, s0) == CutShifted(w, LastShift(w, Min(MaxShift, MaxScale - s0)), s0)

\* The number x, not 0, of which 10^e is the place of the first significant
\* digit, times the power of two that makes its integer part a 53-bit
\* significand, 2^MaxScale at most: [q |-> the integer part, rem |-> the limbs
\* after the point, s |-> the power].  The first power makes it 2^47 at least
\* and less than 2^52.
Significand(x, e) ==
    CutAfter(Scaled(x, Min(47 - LogTwo(e), MaxScale)), Min(47 - LogTwo(e), MaxScale))

\* The half of the last place before k places, of which five is the half of
\* the first: five and k - 1 zeros.
HalfOf(k, five) == <<five>> \o Zeros(k - 1)

\* Where the integer lies that is nearest to g.q and the places g.rem after
\* the point, ties to even: "below", "above", or "exact" when the places are
\* zeros.
SideOf(g, five) ==
    IF \A i \in 1..Len(g.rem) : g.rem[i] = 0 THEN "exact"
    ELSE IF DigitsLess(StripLeadingZeros(g.rem), HalfOf(Len(g.rem), five)) THEN "below"
    ELSE IF g.rem # HalfOf(Len(g.rem), five) THEN "above"
    ELSE IF DigitAt(g.q, Len(g.q)) % 2 = 0 THEN "below" ELSE "above"

\* The decimal of the float x, not 0, as a number in limbs.
NumOfFloat(x) ==
    IF x.e + 1 >= Len(x.ds) THEN NumOf(x.ds \o Zeros(x.e + 1 - Len(x.ds)), 0)
    ELSE NumOf(x.ds, Len(x.ds) - 1 - x.e)

\* Where the double nearest to the decimal x lies: "below" x, "above" it, or
\* "exact" (x is a double).  The nearest double is the significand rounded to
\* an integer, ties to even.
DoubleSide(x) == SideOf(Significand(NumOfFloat(x), x.e), TenTo7 \div 2)

\* The digits that tell any two doubles apart, and the digits every decimal
\* of a normal double keeps through it.
ReprDigits == 17
ExactDigits == 15
MaxExactExp == 307

\* The double g.q / 2^g.s, or the next when up.
DoubleOf(g, up) ==
    IF ~up THEN [m |-> g.q, s |-> g.s]
    ELSE IF Succ(g.q, TenTo7 - 1) = TwoTo53 THEN [m |-> TwoTo52, s |-> g.s - 1]
    ELSE [m |-> Succ(g.q, TenTo7 - 1), s |-> g.s]

\* The double nearest to g.q and the limbs g.rem after the point, over
\* 2^g.s, ties to even.
RoundedDouble(g) == DoubleOf(g, SideOf(g, TenTo7 \div 2) = "above")

\* The double nearest to the number x, not 0, of which 10^e is the place of
\* the first significant digit, ties to even; it is zero when m is, and
\* infinite when s is less than MinScale.
NearestDouble(x, e) == RoundedDouble(Significand(x, e))

\* The decimal that the number x in limbs is, as a float.
FloatOfNum(x) ==
    SciOf(DigitsOfLimbs(x.n), LimbDigits * (Len(x.n) - x.k), 0)

\* The decimal that is m / 2^s exactly, as a float.
ExactDecimal(m, s) == FloatOfNum(Scaled([n |-> m, k |-> 0], 0 - s))

\* The decimal the double d, not 0, is exactly.
ExactOf(d) == ExactDecimal(d.m, d.s)

\* The digits kept, one more in the last place when up.
RoundedAt(x, kept, up) ==
    IF ~up THEN [x EXCEPT !.ds = StripZeros(kept)]
    ELSE IF Len(Succ(kept, 9)) > Len(kept) THEN [x EXCEPT !.ds = <<1>>, !.e = @ + 1]
    ELSE [x EXCEPT !.ds = StripZeros(Succ(kept, 9))]

\* The last digit kept is rounded up: the digits after it are more than half
\* of its place, or they are the half and the double lies above the decimal,
\* or is the decimal and the last digit is odd.  The double lies on the side
\* of the halfway decimal its shortest decimal lies on, unless that decimal
\* is the halfway decimal itself.
RoundsUp(x) ==
    IF Len(x.ds) = FloatPrec + 1 /\ x.ds[FloatPrec + 1] = 5
    THEN IF x.ds[FloatPrec] % 2 = 1 THEN DoubleSide(x) # "below"
         ELSE DoubleSide(x) = "above"
    ELSE x.ds[FloatPrec + 1] >= 5

\* The decimal c rounded to FloatPrec significant digits, ties to even.
RoundedDecimal(c) ==
    IF Len(c.ds) <= FloatPrec THEN c
    ELSE RoundedAt(c, SubSeq(c.ds, 1, FloatPrec),
                   SideOf([q |-> SubSeq(c.ds, 1, FloatPrec),
                           rem |-> SubSeq(c.ds, FloatPrec + 1, Len(c.ds))], 5) = "above")

\* The decimal the double nearest to x is exactly, rounded to FloatPrec digits.
RoundedExact(x) ==
    [RoundedDecimal(ExactOf(NearestDouble(NumOfFloat(x), x.e))) EXCEPT !.neg = x.neg]

\* The decimal of FloatPrec significant digits at most that '%.12g' prints of
\* the double x is: the double's exact value rounded, ties to even.  A double
\* of 10^-307 at least is within less than a unit of the 16th digit of its
\* repr, so the repr is rounded, and the exact value only tells a tie; below,
\* where the subnormal doubles are, the exact value is rounded.
RoundFloat(x) ==
    IF x.kind # "num" \/ x.ds = <<>> THEN x
    ELSE IF x.e < 0 - MaxExactExp THEN RoundedExact(x)
    ELSE IF Len(x.ds) <= FloatPrec THEN x
    ELSE RoundedAt(x, SubSeq(x.ds, 1, FloatPrec), RoundsUp(x))

DigitChars(ds) == [i \in 1..Len(ds) |-> DigitChar(ds[i])]

\* The exponent of the 'g' format: a sign and two digits at least.
ExpText(e) ==
    (IF e < 0 THEN U(<<"e", "-">>) ELSE U(<<"e", "+">>))
        \o (IF e \in -9..9 THEN <<DigitChar(0)>> ELSE <<>>)
        \o NatStr(IF e < 0 THEN 0 - e ELSE e)

\* The 'g' format of a number r of FloatPrec digits at most, not 0, with ".0"
\* when it has neither a point nor an exponent. The ".0" counts in the width:
\* the exponent form is taken when the exponent is below -4 or is FloatPrec - 1
\* at least (99999999999.0 is written out, 100000000000.0 is 1e+11).
NumText(r) ==
    IF r.e < -4 \/ r.e >= FloatPrec - 1
    THEN <<DigitChar(r.ds[1])>>
         \o (IF Len(r.ds) > 1 THEN U(<<".">>) \o DigitChars(Tail(r.ds)) ELSE <<>>)
         \o ExpText(r.e)
    ELSE IF r.e < 0
    THEN U(<<"0", ".">>) \o DigitChars(Zeros(0 - r.e - 1) \o r.ds)
    ELSE DigitChars([i \in 1..(r.e + 1) |-> DigitAt(r.ds, i)]) \o U(<<".">>)
         \o (IF Len(r.ds) > r.e + 1 THEN DigitChars(SubSeq(r.ds, r.e + 2, Len(r.ds)))
             ELSE U(<<"0">>))

\* The text of a float r that has no more digits than unicode() keeps.
FloatText(r) ==
    IF r.kind = "nan" THEN U(<<"n", "a", "n">>)
    ELSE (IF r.neg THEN U(<<"-">>) ELSE <<>>)
         \o (IF r.kind = "inf" THEN U(<<"i", "n", "f">>)
             ELSE IF r.ds = <<>> THEN U(<<"0", ".", "0">>)
             ELSE NumText(r))

\* unicode(x) of a float x, Python 2: float_str, the 'g' format of 12
\* significant digits.
FloatStr(x) == FloatText(RoundFloat(x))

\* The decimals halfway between the double d and the doubles next to it,
\* below and above: the double below a power of two is half as far.
HalfwayBelow(d) ==
    IF d.m = TwoTo52 /\ d.s < MaxScale
    THEN ExactDecimal(Pred(TimesTwoTo(2, d.m), TenTo7 - 1), d.s + 2)
    ELSE ExactDecimal(Pred(TimesTwoTo(1, d.m), TenTo7 - 1), d.s + 1)

HalfwayAbove(d) == ExactDecimal(Succ(TimesTwoTo(1, d.m), TenTo7 - 1), d.s + 1)

\* a < b, of two positive decimals.
DecimalLess(a, b) ==
    \/ a.e < b.e
    \/ /\ a.e = b.e
       /\ \E i \in 1..Max(Len(a.ds), Len(b.ds)) :
              /\ DigitAt(a.ds, i) < DigitAt(b.ds, i)
              /\ \A j \in 1..(i - 1) : DigitAt(a.ds, j) = DigitAt(b.ds, j)

\* The decimals of n significant digits on either side of the decimal c, and
\* whether the upper one is the nearer (of two as near, the one whose last
\* digit is even).
Neighbours(c, n) ==
    IF n >= Len(c.ds) THEN [lo |-> c, hi |-> c, up |-> FALSE]
    ELSE [lo |-> RoundedAt(c, SubSeq(c.ds, 1, n), FALSE),
          hi |-> RoundedAt(c, SubSeq(c.ds, 1, n), TRUE),
          up |-> SideOf([q |-> SubSeq(c.ds, 1, n), rem |-> SubSeq(c.ds, n + 1, Len(c.ds))],
                        5) = "above"]

\* The decimal c reads as the double of which lo and hi are the halfway
\* decimals: it is between them, or is one of them and the significand is
\* even.
ReadsAs(c, lo, hi, even) ==
    \/ DecimalLess(lo, c) /\ DecimalLess(c, hi)
    \/ even /\ (c = lo \/ c = hi)

SomeReadsAs(nb, lo, hi, even) == ReadsAs(nb.lo, lo, hi, even) \/ ReadsAs(nb.hi, lo, hi, even)

\* The fewest significant digits of a decimal that reads as the double of
\* which c is the exact decimal.
FewestDigits(c, lo, hi, even) ==
    1 + Cardinality({n \in 1..(ReprDigits - 1) : ~SomeReadsAs(Neighbours(c, n), lo, hi, even)})

\* Of the two decimals nb, the one that reads as the double, the nearer when
\* both do.
NearerOf(nb, lo, hi, even) ==
    IF nb.up /\ ReadsAs(nb.hi, lo, hi, even) THEN nb.hi
    ELSE IF ReadsAs(nb.lo, lo, hi, even) THEN nb.lo
    ELSE nb.hi

\* repr of the double of which c is the exact decimal: the decimal of the
\* fewest digits that reads as it, and of those the nearest to it.
ShortestDecimal(c, lo, hi, even) ==
    NearerOf(Neighbours(c, FewestDigits(c, lo, hi, even)), lo, hi, even)

\* repr of the double d, not 0.
Repr(d) ==
    ShortestDecimal(ExactOf(d), HalfwayBelow(d), HalfwayAbove(d),
                    d.m[Len(d.m)] % 2 = 0)

\* The float the double d is.
FloatOfDouble(d) ==
    IF d.s < MinScale THEN Inf(FALSE)
    ELSE IF d.m = <<>> THEN Zero
    ELSE Repr(d)

\* The float the decimal c, not 0, reads as: infinite from 10^309 on, zero
\* below 10^-324, c itself when it has no more digits than every decimal
\* keeps, else the double nearest to it.
ReadDecimal(c) ==
    IF c.e > 308 THEN Inf(FALSE)
    ELSE IF c.e < -324 THEN Zero
    ELSE IF Len(c.ds) <= ExactDigits /\ c.e \in (0 - MaxExactExp)..MaxExactExp THEN c
    ELSE FloatOfDouble(NearestDouble(NumOfFloat(c), c.e))

\* The first code points of the runs of ten decimal digits of Unicode 5.2
\* (category Nd), the digits beside the ASCII ones that float(unicode) reads.
DecimalZeros ==
    {48, 1632, 1776, 1984, 2406, 2534, 2662, 2790, 2918, 3046, 3174, 3302, 3430,
     3664, 3792, 3872, 4160, 4240, 6112, 6160, 6470, 6608, 6784, 6800, 6992, 7088,
     7232, 7248, 42528, 43216, 43264, 43472, 43600, 44016, 65296, 66720,
     120782, 120792, 120802, 120812, 120822}

\* NEW TAI LUE THAM DIGIT ONE, a decimal digit of Unicode 5.2 outside the runs.
ThamDigitOne == 6618

\* Py_UNICODE_TODECIMAL: the digit a character is, or -1.
ToDecimal(c) ==
    IF \E z \in DecimalZeros : c \in z..(z + 9)
    THEN c - (CHOOSE z \in DecimalZeros : c \in z..(z + 9))
    ELSE IF c = ThamDigitOne THEN 1
    ELSE -1

\* PyUnicode_EncodeDecimal of one character: whitespace is a space, a decimal
\* digit its ASCII digit, another character below 256 itself; -1 for a
\* character that cannot be encoded.
EncodeDecimal(c) ==
    IF c \in Whitespace THEN 32
    ELSE IF ToDecimal(c) >= 0 THEN DigitChar(ToDecimal(c))
    ELSE IF c \in 1..255 THEN c
    ELSE -1

\* The index of the first character of s that is in cs, or 0.
FirstOf(s, cs) ==
    IF \E i \in 1..Len(s) : s[i] \in cs
    THEN CHOOSE i \in 1..Len(s) : s[i] \in cs /\ \A j \in 1..(i - 1) : s[j] \notin cs
    ELSE 0

\* s without the sign it starts with, if any.
Unsigned(s) == IF s # <<>> /\ s[1] \in {43, 45} THEN Tail(s) ELSE s

\* s with its ASCII capitals in lower case.
Lower(s) == [i \in 1..Len(s) |-> IF s[i] \in 65..90 THEN s[i] + 32 ELSE s[i]]

\* The exponent the digits s write, which is ExpCap when they write more: an
\* exponent that large makes the number infinite, or zero, whatever its digits.
ExpCap == 1000000
ExpVal(s) ==
    IF Len(StripLeadingZeros([i \in 1..Len(s) |-> DigitVal(s[i])])) > 6 THEN ExpCap
    ELSE NatVal(s)

\* The float the digits ipart.fpart times 10^ex read as, with the sign neg.
FloatOfDigits(neg, ds, n, ex) ==
    IF \A i \in 1..Len(ds) : ds[i] = 0 THEN [Zero EXCEPT !.neg = neg]
    ELSE [ReadDecimal(SciOf(ds, n, ex)) EXCEPT !.neg = neg]

\* The index of the "e" or "E" of the unsigned text u, or 0.
ExpAt(u) == FirstOf(u, {69, 101})

\* The mantissa of u, and its exponent ("0" when it has none).
MantOf(u) == IF ExpAt(u) = 0 THEN u ELSE SubSeq(u, 1, ExpAt(u) - 1)
ExpoOf(u) == IF ExpAt(u) = 0 THEN <<DigitChar(0)>> ELSE SubSeq(u, ExpAt(u) + 1, Len(u))

\* The digits of the mantissa m before its point, and after it.
IPartOf(m) == IF FirstOf(m, {46}) = 0 THEN m ELSE SubSeq(m, 1, FirstOf(m, {46}) - 1)
FPartOf(m) == IF FirstOf(m, {46}) = 0 THEN <<>> ELSE SubSeq(m, FirstOf(m, {46}) + 1, Len(m))

\* The number the digit characters ipart.fpart and the exponent expo write.
FloatOfParts(neg, ipart, fpart, expo) ==
    IF /\ AllDigits(ipart) /\ AllDigits(fpart) /\ Len(ipart) + Len(fpart) > 0
       /\ AllDigits(Unsigned(expo)) /\ Unsigned(expo) # <<>>
    THEN [exc |-> "none",
          val |-> FloatOfDigits(neg,
                                [i \in 1..(Len(ipart) + Len(fpart)) |->
                                    DigitVal((ipart \o fpart)[i])],
                                Len(ipart),
                                IF expo[1] = 45 THEN 0 - ExpVal(Unsigned(expo))
                                ELSE ExpVal(Unsigned(expo)))]
    ELSE [exc |-> "ValueError", val |-> Zero]

\* The float the text u after the sign is: "inf", "infinity" or "nan" in either
\* case, or digits with optionally a point among them, at least one digit in
\* all, and optionally an exponent: "e" or "E", optionally a sign, digits.
FloatOfUnsigned(neg, u) ==
    IF Lower(u) \in {U(<<"i", "n", "f">>), U(<<"i", "n", "f", "i", "n", "i", "t", "y">>)}
    THEN [exc |-> "none", val |-> Inf(neg)]
    ELSE IF Lower(u) = U(<<"n", "a", "n">>) THEN [exc |-> "none", val |-> NaN]
    ELSE FloatOfParts(neg, IPartOf(MantOf(u)), FPartOf(MantOf(u)), ExpoOf(u))

\* The float the text t is, a sign first, optionally.
FloatOfText(t) == FloatOfUnsigned(t # <<>> /\ t[1] = 45, Unsigned(t))

\* float(s) of a unicode string s: [exc, val].  The string is encoded
\* (PyUnicode_EncodeDecimal), which raises UnicodeEncodeError, a ValueError, on
\* a character it cannot encode; the spaces around the text are ignored, and a
\* text that is not a number raises ValueError.  A number too large for a
\* double is infinite, one too small is zero.
FloatParse(s) ==
    IF \E i \in 1..Len(s) : EncodeDecimal(s[i]) = -1
    THEN [exc |-> "UnicodeEncodeError", val |-> Zero]
    ELSE FloatOfText(Strip([i \in 1..Len(s) |-> EncodeDecimal(s[i])], {32}))

\* ---------------------------------------------------------------- elements

NoExc == "none"

Element(tag, attrib, text, children) ==
    [tag |-> tag, attrib |-> attrib, text |-> text, children |-> children]

\* The marker written before the score in a candidate's title.
NlpPrefix == U(<<"n", "l", "p", " ">>)

\* etree.Element(u'span', {u'class': u'alternatives'})
AlternativesSpan == Element("span", [class |-> "alternatives"], <<>>, <<>>)

\* etree.Element(u'ins', {u'class': u'alt', u'title': u'nlp ' + unicode(s[1])})
\* with ins.text = s[0]  (s[0], s[1] of Python are s[1], s[2] here).
InsElement(s) ==
    Element("ins", [class |-> "alt", title |-> NlpPrefix \o FloatStr(s[2])], s[1], <<>>)

\* con.xpath(wordxpath): the list of the nodes the path resolves to.
xpath(t, wordxpath) == IF wordxpath \in 1..Len(t) THEN <<wordxpath>> ELSE <<>>

\* ---------------------------------------------------------------- insert_suggestions

\* Mutant of AppendIns: the candidate is inserted before the others
\* (suggestion_span.insert(0, ins)).
AppendInsFront(t, w, k, s) ==
    [t EXCEPT ![w].children[k].children = <<InsElement(s)>> \o @]

\* suggestion_span.append(ins), suggestion_span being child k of word w.
AppendIns(t, w, k, s) ==
    [t EXCEPT ![w].children[k].children = Append(@, InsElement(s))]

\* The loop over the suggestions: an item without a score raises at s[1],
\* and what the loop appended before it stays.
RECURSIVE InsertLoop(_, _, _, _)
InsertLoop(t, w, k, ss) ==
    IF ss = <<>> THEN [tree |-> t, exc |-> NoExc]
    ELSE IF Len(Head(ss)) < 2 THEN [tree |-> t, exc |-> "IndexError"]
    ELSE InsertLoop(AppendIns(t, w, k, Head(ss)), w, k, Tail(ss))

\* Mutant of PlainToAnnotated: the word's text is not cleared.
PlainToAnnotatedKeepText(t, w) ==
    [t EXCEPT ![w].children = Append(@, AlternativesSpan)]

\* The branch taken when the word's sanitized text is not empty: the text is
\* cleared and a new container is appended to the word's children.
PlainToAnnotated(t, w) ==
    [t EXCEPT ![w].text = <<>>, ![w].children = Append(@, AlternativesSpan)]

\* insert_suggestions(con, wordxpath, suggestions): [tree, exc].
insert_suggestions(t, wordxpath, suggestions) ==
    LET found == xpath(t, wordxpath) IN
    IF found = <<>> THEN [tree |-> t, exc |-> "IndexError"]
    ELSE LET w == found[1] IN
         IF sanitize(t[w].text) # <<>>
         THEN LET t1 == PlainToAnnotated(t, w) IN
              InsertLoop(t1, w, Len(t1[w].children), suggestions)
         ELSE IF t[w].children = <<>> THEN [tree |-> t, exc |-> "IndexError"]
         ELSE InsertLoop(t, w, 1, suggestions)

\* insert_suggestion(con, wordxpath, suggestion, nlpnum)
insert_suggestion(t, wordxpath, suggestion, nlpnum) ==
    insert_suggestions(t, wordxpath, << <<suggestion, nlpnum>> >>)

\* ---------------------------------------------------------------- extract_suggestions

\* One element of the list comprehension: [exc, val].
TagSuggestion(tag) ==
    IF "title" \notin DOMAIN tag.attrib THEN [exc |-> "KeyError", val |-> <<>>]
    ELSE LET f == FloatParse(SliceFrom(tag.attrib.title, 4)) IN
         IF f.exc # NoExc THEN [exc |-> f.exc, val |-> <<>>]
         ELSE [exc |-> NoExc, val |-> <<sanitize(tag.text), f.val>>]

\* extract_suggestions(context, wordxpath): [val, exc].
extract_suggestions(t, wordxpath) ==
    LET found == xpath(t, wordxpath) IN
    IF found = <<>> THEN [val |-> <<>>, exc |-> "IndexError"]
    ELSE LET word == t[found[1]] IN
         IF word.children = <<>> THEN [val |-> <<>>, exc |-> "IndexError"]
         ELSE LET tags == word.children[1].children
                  rs == [i \in 1..Len(tags) |-> TagSuggestion(tags[i])]
                  bad == {i \in 1..Len(tags) : rs[i].exc # NoExc}
              IN  IF bad # {}
                  THEN [val |-> <<>>,
                        exc |-> rs[CHOOSE i \in bad : \A j \in bad : i <= j].exc]
                  ELSE [val |-> [i \in 1..Len(tags) |-> rs[i].val], exc |-> NoExc]

\* ---------------------------------------------------------------- inputs

\* The document has two word nodes.
WordIds == {1, 2}

Cot == U(<<"c", "o", "t">>)
Blank == U(<<" ">>)
Cat == U(<<"c", "a", "t">>)
Car == U(<<"c", "a", "r">>)
\* u' cat\n'
CatWs == U(<<" ", "c", "a", "t">>) \o <<Newline>>

\* A title of a word node.
WordTitle == U(<<"b", "b", "o", "x", " ", "1", " ", "2", " ", "3", " ", "4">>)

\* A child element of a word that is not a suggestion container: <strong/>.
Strong == Element("strong", <<>>, <<>>, <<>>)

Word(text, kids) ==
    Element("span", [class |-> "ocr_word", title |-> WordTitle], text, kids)

\* The word nodes a parsed document holds: direct text that is a word or only
\* whitespace, alone or beside another child element.
InitWords == {Word(text, kids) : text \in {Cot, Blank}, kids \in {<<>>, <<Strong>>}}

\* 0.9, a float of 13 significant digits, and one whose 13th digit is a lone
\* 5: the double nearest to 0.1234567890125 lies below it.
Score09 == Float(0, <<9>>)
ScoreLong == Float(0, <<1, 2, 3, 4, 5, 6, 7, 8, 9, 0, 1, 2, 7>>)
ScoreHalf == Float(0, <<1, 2, 3, 4, 5, 6, 7, 8, 9, 0, 1, 2, 5>>)

\* The items of a suggestion list: (text, score) pairs, and one item without
\* a score.
Items == {<<Cat, Score09>>, <<CatWs, ScoreLong>>, <<Car>>}

RECURSIVE SeqsUpTo(_, _)
SeqsUpTo(S, n) ==
    IF n = 0 THEN {<<>>}
    ELSE LET shorter == SeqsUpTo(S, n - 1) IN
         shorter \cup {Append(q, x) : q \in shorter, x \in S}

Lists == SeqsUpTo(Items, MaxLen)

\* The paths a caller holds: one per word, and one that resolves to nothing.
Paths == WordIds \cup {3}

\* Scores over the range of the floats: 1e-05, which prints with an exponent;
\* -2.5; 2^32, the digits of which are written out; 123456789012.0, the 12
\* digits of which print with an exponent; 999999999999.5, halfway between two
\* decimals of 12 digits, the upper of which prints with an exponent; the
\* least double, which is subnormal; the negative zero, the negative infinity
\* and the float that is not a number.
ScoreSmall == Sci(<<1>>, -5)
ScoreNeg == Negative(Float(2, <<5>>))
ScoreTwoTo32 == Sci(<<4, 2, 9, 4, 9, 6, 7, 2, 9, 6>>, 9)
ScoreEleven == Sci(<<1, 2, 3, 4, 5, 6, 7, 8, 9, 0, 1, 2>>, 11)
ScoreTie == Sci(<<9, 9, 9, 9, 9, 9, 9, 9, 9, 9, 9, 9, 5>>, 11)
ScoreLeast == Sci(<<5>>, -324)

Scores ==
    {Score09, ScoreHalf, ScoreSmall, ScoreNeg, ScoreTwoTo32, ScoreEleven, ScoreTie,
     ScoreLeast, Negative(Zero), Inf(TRUE), NaN}

\* The (text, score) pairs of the score lists.
ScoreItems == {<<Cat, x>> : x \in Scores} \cup {<<CatWs, ScoreEleven>>}

ScoreLists == SeqsUpTo(ScoreItems, MaxLen)

\* The path the score lists are given to: the first word.
ScorePaths == {1}

\* ---------------------------------------------------------------- actions

RECURSIVE CountIns(_)
CountIns(kids) ==
    IF kids = <<>> THEN 0
    ELSE (IF Head(kids).tag = "ins" THEN 1 ELSE 0)
         + CountIns(Head(kids).children) + CountIns(Tail(kids))

\* The candidate nodes in the tree.
CandCount(t) == CountIns(t)

NoRet == [val |-> <<>>, exc |-> NoExc]
NoCall == [op |-> "none", path |-> 0, arg |-> <<>>, exc |-> NoExc]
NoBCall == [xpaths |-> <<>>, done |-> FALSE]
NoResults == [exc |-> NoExc, map |-> <<>>, keys |-> <<>>]

\* The history of the insert calls on word w: the suggestions of the calls that
\* returned, in call order; whether a call was made; whether one raised.
Logged(l, path, suggestions, exc) ==
    IF path \notin DOMAIN l THEN l
    ELSE IF exc = NoExc
         THEN [l EXCEPT ![path].items = @ \o suggestions, ![path].called = TRUE]
         ELSE [l EXCEPT ![path].raised = TRUE]

InsertSuggestions(path, suggestions) ==
    /\ CandCount(tree) + Len(suggestions) <= MaxCands
    /\ LET r == insert_suggestions(tree, path, suggestions) IN
       /\ tree' = r.tree
       /\ call' = [op |-> "insert_suggestions", path |-> path,
                   arg |-> suggestions, exc |-> r.exc]
       /\ log' = Logged(log, path, suggestions, r.exc)
    /\ before' = tree
    /\ ret' = NoRet
    /\ UNCHANGED <<orig, hocr, bcall, results>>

InsertSuggestion(path, suggestion, nlpnum) ==
    /\ CandCount(tree) + 1 <= MaxCands
    /\ LET r == insert_suggestion(tree, path, suggestion, nlpnum) IN
       /\ tree' = r.tree
       /\ call' = [op |-> "insert_suggestion", path |-> path,
                   arg |-> << <<suggestion, nlpnum>> >>, exc |-> r.exc]
       /\ log' = Logged(log, path, << <<suggestion, nlpnum>> >>, r.exc)
    /\ before' = tree
    /\ ret' = NoRet
    /\ UNCHANGED <<orig, hocr, bcall, results>>

ExtractSuggestions(path) ==
    /\ LET r == extract_suggestions(tree, path) IN
       /\ ret' = r
       /\ call' = [op |-> "extract_suggestions", path |-> path,
                   arg |-> <<>>, exc |-> r.exc]
    /\ before' = tree
    /\ UNCHANGED <<tree, orig, log, hocr, bcall, results>>

Init ==
    /\ tree \in {<<word, Word(Cot, <<>>)>> : word \in InitWords}
    /\ orig = tree
    /\ before = tree
    /\ call = NoCall
    /\ ret = NoRet
    /\ log = [w \in WordIds |-> [items |-> <<>>, called |-> FALSE, raised |-> FALSE]]
    /\ hocr = <<>>
    /\ bcall = NoBCall
    /\ results = NoResults

Next ==
    \/ \E path \in Paths, suggestions \in Lists : InsertSuggestions(path, suggestions)
    \/ \E path \in Paths, s \in {<<Cat, ScoreHalf>>} :
           InsertSuggestion(path, s[1], s[2])
    \/ \E path \in Paths : ExtractSuggestions(path)

Spec == Init /\ [][Next]_vars

\* The same calls on the first word, the suggestions being pairs whose scores
\* range over Scores.
NextScores ==
    \/ \E path \in ScorePaths, suggestions \in ScoreLists :
           InsertSuggestions(path, suggestions)
    \/ \E path \in ScorePaths, s \in ScoreItems : InsertSuggestion(path, s[1], s[2])
    \/ \E path \in ScorePaths : ExtractSuggestions(path)

SpecScores == Init /\ [][NextScores]_vars

\* ---------------------------------------------------------------- dict
\* results is a dict whose keys are unicode strings.  A CPython 2.7 dict is a
\* hash table of 8 slots at first; a key is put in the first free slot of its
\* probe sequence, which starts at the low bits of its hash; the table grows
\* when two thirds of it are in use; and the dict iterates over its slots in
\* order.  A hash is a C long of 64 bits, here its 8 bytes, the lowest first.

HashBytes == 8
Byte == 256
\* The multiplier of the string hash.
Multiplier == 1000003
\* The slots of a new dict (PyDict_MINSIZE), and the shift of the probe
\* sequence (PERTURB_SHIFT).
MinSize == 8
PerturbShift == 5

\* The bytes of a natural number below 2^31.
BytesOf(n) ==
    [i \in 1..HashBytes |-> IF i <= 4 THEN (n \div Byte^(i - 1)) % Byte ELSE 0]

\* Bit k of a ^ b, of two bytes.
XorBit(a, b, k) == (((a \div 2^k) + (b \div 2^k)) % 2) * 2^k

\* a ^ b of two bytes.
XorByte(a, b) ==
    XorBit(a, b, 0) + XorBit(a, b, 1) + XorBit(a, b, 2) + XorBit(a, b, 3)
        + XorBit(a, b, 4) + XorBit(a, b, 5) + XorBit(a, b, 6) + XorBit(a, b, 7)

\* x ^ n, n a natural number below 2^24.
XorWith(x, n) ==
    [i \in 1..HashBytes |-> IF i <= 3 THEN XorByte(x[i], BytesOf(n)[i]) ELSE x[i]]

\* The bytes from byte i on of 1000003 * x, as a C long multiplies: what does
\* not fit is lost.
RECURSIVE TimesFrom(_, _, _)
TimesFrom(x, i, carry) ==
    IF i > HashBytes \/ carry < 0 THEN <<>>
    ELSE <<(x[i] * Multiplier + carry) % Byte>>
         \o TimesFrom(x, i + 1, (x[i] * Multiplier + carry) \div Byte)

\* The loop of unicode_hash over the characters i to j of s:
\* x = (1000003 * x) ^ c.
RECURSIVE HashFrom(_, _, _, _)
HashFrom(x, s, i, j) ==
    IF i > j \/ x = <<>> THEN x
    ELSE IF i = j THEN XorWith(TimesFrom(x, 1, 0), s[i])
    ELSE HashFrom(HashFrom(x, s, i, (i + j) \div 2), s, (i + j) \div 2 + 1, j)

\* A hash is never -1.
NotMinusOne(x) ==
    IF \A i \in 1..HashBytes : x[i] = Byte - 1 THEN [x EXCEPT ![1] = Byte - 2] ELSE x

\* hash(s) of a unicode string s: x = ord(s[0]) << 7, the loop, x ^= len(s).
Hash(s) ==
    IF s = <<>> THEN BytesOf(0)
    ELSE NotMinusOne(XorWith(HashFrom(BytesOf(s[1] * 2^7), s, 1, Len(s)), Len(s)))

\* (h >> sh) & (size - 1): h as a size_t, size a power of two, 2^16 at most.
HashBits(h, sh, size) ==
    ((DigitAt(h, sh \div 8 + 1) + Byte * DigitAt(h, sh \div 8 + 2)
        + Byte * Byte * DigitAt(h, sh \div 8 + 3)) \div 2^(sh % 8)) % size

\* A slot without an entry; an entry is <<key, value>>.
NoEntry == <<>>

\* A dict: its table and the number of its entries.
DictNew == [slots |-> [i \in 1..MinSize |-> NoEntry], used |-> 0]

\* lookdict: the slot, counted from 0, of key, or the free slot where it goes.
\* i is the slot probed, sh the bits perturb has been shifted by.
RECURSIVE ProbeFrom(_, _, _, _, _)
ProbeFrom(slots, key, h, i, sh) ==
    IF slots[i + 1] = NoEntry \/ slots[i + 1][1] = key THEN i
    ELSE ProbeFrom(slots, key, h,
                   (5 * i + HashBits(h, sh, Len(slots)) + 1) % Len(slots),
                   sh + PerturbShift)

Lookup(slots, key) == ProbeFrom(slots, key, Hash(key), HashBits(Hash(key), 0, Len(slots)), 0)

\* The entries of a table, in slot order.
Entries(slots) == SelectSeq(slots, LAMBDA e : e # NoEntry)

\* The size of the table after a resize: the least power of two from n on that
\* is more than min.
RECURSIVE NewSize(_, _)
NewSize(n, min) == IF n > min THEN n ELSE NewSize(2 * n, min)

\* dictresize: the entries es put in the table slots, in their order.
RECURSIVE Reinsert(_, _)
Reinsert(slots, es) ==
    IF es = <<>> THEN slots
    ELSE Reinsert([slots EXCEPT ![Lookup(slots, Head(es)[1]) + 1] = Head(es)], Tail(es))

\* The table of d grown to hold four times its entries.
Resized(d) ==
    [slots |-> Reinsert([i \in 1..NewSize(MinSize, 4 * d.used) |-> NoEntry], Entries(d.slots)),
     used |-> d.used]

\* The dict after an insertion: it is resized when the insertion took a free
\* slot and two thirds of the table are in use.
Grown(d, new) == IF new /\ d.used * 3 >= Len(d.slots) * 2 THEN Resized(d) ELSE d

\* The entry <<key, val>> put in slot i of d.
Stored(d, key, val, i) ==
    Grown([slots |-> [d.slots EXCEPT ![i + 1] = <<key, val>>],
           used |-> d.used + (IF d.slots[i + 1] = NoEntry THEN 1 ELSE 0)],
          d.slots[i + 1] = NoEntry)

\* d[key] = val
DictSet(d, key, val) == Stored(d, key, val, Lookup(d.slots, key))

\* list(d): the keys in slot order.
DictKeys(d) == [i \in 1..Len(Entries(d.slots)) |-> Entries(d.slots)[i][1]]

\* The value of each key of d.
DictMap(d) ==
    [k \in {DictKeys(d)[i] : i \in 1..Len(DictKeys(d))} |->
        d.slots[Lookup(d.slots, k) + 1][2]]

\* ---------------------------------------------------------------- extract_bboxes

\* The xpath queries of the module.
ALL_BBOXES == U(<<"/", "/", "*", "[", "@", "t", "i", "t", "l", "e", "]">>)
PAGES ==
    U(<<"/", "/", "*", "[", "@", "c", "l", "a", "s", "s", "=", "'", "o", "c", "r", "_", "p",
      "a", "g", "e", "'", " ", "a", "n", "d", " ", "@", "t", "i", "t", "l", "e", "]">>)
LINES ==
    U(<<"/", "/", "*", "[", "@", "c", "l", "a", "s", "s", "=", "'", "o", "c", "r", "_", "l",
      "i", "n", "e", "'", " ", "a", "n", "d", " ", "@", "t", "i", "t", "l", "e", "]">>)

\* context.xpath(xpath): the indices of the matching nodes, in document order.
Matches(doc, xp) ==
    SelectSeq([i \in 1..Len(doc) |-> i],
              LAMBDA i : /\ "title" \in DOMAIN doc[i].attrib
                         /\ \/ xp = ALL_BBOXES
                            \/ xp = PAGES /\ doc[i].attrib.class = "ocr_page"
                            \/ xp = LINES /\ doc[i].attrib.class = "ocr_line")

\* The length of the longest run of digits of s that starts at index i.
RECURSIVE DigitRun(_, _)
DigitRun(s, i) == IF i <= Len(s) /\ IsDigit(s[i]) THEN 1 + DigitRun(s, i + 1) ELSE 0

\* ( [0-9]+){n} matched at index i of s: the index after the match, or 0.
RECURSIVE SpaceInts(_, _, _)
SpaceInts(s, i, n) ==
    IF n = 0 THEN i
    ELSE IF i <= Len(s) /\ s[i] = 32 /\ DigitRun(s, i + 1) > 0
         THEN SpaceInts(s, i + 1 + DigitRun(s, i + 1), n - 1)
         ELSE 0

\* The integers of a bbox token.
BboxInts == 4

\* The marker of a bbox token.
BboxMarker == U(<<"b", "b", "o", "x">>)

\* (bbox{1} [0-9]+ [0-9]+ [0-9]+ [0-9]+) matched at index i of s: the index
\* after the match, or 0.
GroupEnd(s, i) ==
    IF i + 3 <= Len(s) /\ SubSeq(s, i, i + 3) = BboxMarker
    THEN SpaceInts(s, i + 4, BboxInts)
    ELSE 0

\* re.match(bboxpattern, title): the greedy .* takes the longest prefix without
\* a newline after which the group matches.  [ok, group]; not ok is None.
BboxMatch(title) ==
    LET starts == {i \in 1..Len(title) :
                      /\ GroupEnd(title, i) > 0
                      /\ \A j \in 1..(i - 1) : title[j] # Newline}
    IN  IF starts = {} THEN [ok |-> FALSE, group |-> <<>>]
        ELSE LET i == CHOOSE k \in starts : \A j \in starts : j <= k IN
             [ok |-> TRUE, group |-> SubSeq(title, i, GroupEnd(title, i) - 1)]

\* s.split(u' ')
RECURSIVE Split(_)
Split(s) ==
    IF \A i \in 1..Len(s) : s[i] # 32 THEN <<s>>
    ELSE LET p == CHOOSE i \in 1..Len(s) : s[i] = 32 /\ \A j \in 1..(i - 1) : s[j] # 32
         IN  <<SubSeq(s, 1, p - 1)>> \o Split(SubSeq(s, p + 1, Len(s)))

\* tuple(map(int, match.groups()[0][5:].split(u' ')))
BboxTuple(group) ==
    LET parts == Split(SliceFrom(group, 5)) IN
    [i \in 1..Len(parts) |-> NatVal(parts[i])]

\* The inner loop, over the nodes es an xpath matches: [exc, val].  A title
\* the pattern does not match raises at match.groups().
RECURSIVE BboxesOf(_, _)
BboxesOf(doc, es) ==
    IF es = <<>> THEN [exc |-> NoExc, val |-> <<>>]
    ELSE LET m == BboxMatch(doc[Head(es)].attrib.title) IN
         IF ~m.ok THEN [exc |-> "AttributeError", val |-> <<>>]
         ELSE LET rest == BboxesOf(doc, Tail(es)) IN
              IF rest.exc # NoExc THEN rest
              ELSE [exc |-> NoExc, val |-> <<BboxTuple(m.group)>> \o rest.val]

\* The outer loop, over xpaths, filling the dict results: [exc, dict].
RECURSIVE BboxLoop(_, _, _)
BboxLoop(doc, xpaths, res) ==
    IF xpaths = <<>> THEN [exc |-> NoExc, dict |-> res]
    ELSE LET b == BboxesOf(doc, Matches(doc, Head(xpaths))) IN
         IF b.exc # NoExc THEN [exc |-> b.exc, dict |-> DictNew]
         ELSE BboxLoop(doc, Tail(xpaths), DictSet(res, Head(xpaths), b.val))

\* extract_bboxes(hocr_file, xpaths): [exc, dict].
extract_bboxes(doc, xpaths) == BboxLoop(doc, xpaths, DictNew)

\* What the caller has of a call r: the exception, or the mapping and the
\* order in which it iterates.
Returned(r) == [exc |-> r.exc, map |-> DictMap(r.dict), keys |-> DictKeys(r.dict)]

\* ---------------------------------------------------------------- hOCR inputs

\* Most nodes in the parsed file.
MaxNodes == 2
\* Most xpaths given to one call.
MaxSel == 2

TGood == U(<<"b", "b", "o", "x", " ", "1", "0", " ", "2", "0", " ", "3", "0", " ", "4", "0">>)

\* other metadata before and after the token
TMeta ==
    U(<<"a", ";", " ", "b", "b", "o", "x", " ", "1", " ", "2", " ", "3", " ", "4", ";", " ",
      "b", " ", "5">>)

\* no bbox marker
TNoMarker == U(<<"x", " ", "1", " ", "2", " ", "3">>)

\* three integers
TThree == U(<<"b", "b", "o", "x", " ", "1", " ", "2", " ", "3">>)

\* u'bbox 1\t2 3 4': a tab between two of the integers
TTab == U(<<"b", "b", "o", "x", " ", "1">>) \o <<Tab>> \o U(<<"2", " ", "3", " ", "4">>)

\* five integers
TFive == U(<<"b", "b", "o", "x", " ", "1", " ", "2", " ", "3", " ", "4", " ", "5">>)

\* the fourth number is not an integer
TDecimal == U(<<"b", "b", "o", "x", " ", "1", " ", "2", " ", "3", " ", "4", ".", "5">>)

Titles == {TGood, TMeta, TNoMarker, TThree, TTab, TFive, TDecimal}

\* A node of the file: its class, and a title or none.
HocrNodes ==
    {[attrib |-> [class |-> c, title |-> t]] : c \in {"ocr_page", "ocr_line"}, t \in Titles}
    \cup {[attrib |-> [class |-> c]] : c \in {"ocr_page", "ocr_line"}}

Selectors == {ALL_BBOXES, PAGES, LINES}

SelLists == SeqsUpTo(Selectors, MaxSel)

\* One call: the file is parsed anew by every call, so a second call on the
\* same file is a first call again.
ExtractBboxes(xpaths) ==
    /\ ~bcall.done
    /\ results' = Returned(extract_bboxes(hocr, xpaths))
    /\ bcall' = [xpaths |-> xpaths, done |-> TRUE]
    /\ UNCHANGED <<hocr, tree, orig, before, call, ret, log>>

InitBBox ==
    /\ hocr \in UNION {[1..n -> HocrNodes] : n \in 1..MaxNodes}
    /\ bcall = NoBCall
    /\ results = NoResults
    /\ tree = <<>>
    /\ orig = <<>>
    /\ before = <<>>
    /\ call = NoCall
    /\ ret = NoRet
    /\ log = <<>>

NextBBox == \E xpaths \in SelLists : ExtractBboxes(xpaths)

SpecBBox == InitBBox /\ [][NextBBox]_vars

\* ---------------------------------------------------------------- word shapes

IsContainer(e) ==
    e.tag = "span" /\ "class" \in DOMAIN e.attrib /\ e.attrib.class = "alternatives"

NotContainer(e) == ~IsContainer(e)

\* The indices of the children of a word that are suggestion containers.
Containers(word) == {k \in 1..Len(word.children) : IsContainer(word.children[k])}

ContainerOf(word) == word.children[CHOOSE k \in Containers(word) : TRUE]

\* Plain: direct text, no suggestion container.
Plain(word) == word.text # <<>> /\ Containers(word) = {}

\* Plain, the direct text being more than whitespace (the test of
\* insert_suggestions).
PlainWord(word) == sanitize(word.text) # <<>> /\ Containers(word) = {}

\* Annotated: no direct text, exactly one suggestion container.
Annotated(word) == word.text = <<>> /\ Cardinality(Containers(word)) = 1

InsertOps == {"insert_suggestions", "insert_suggestion"}

\* Every item is a (text, score) pair.
WellFormed(suggestions) == \A i \in 1..Len(suggestions) : Len(suggestions[i]) = 2

\* The last call was an insert of a non-empty list of pairs on a resolved path.
InsertedPairs ==
    /\ call.op \in InsertOps
    /\ call.path \in WordIds
    /\ call.arg # <<>>
    /\ WellFormed(call.arg)

\* This step is extract_suggestions on the path of the last call.
ExtractsNext == call'.op = "extract_suggestions" /\ call'.path = call.path

\* The float that reads as the decimal of 12 significant digits nearest to the
\* float x: x itself when it has no more digits, unless it is a subnormal
\* double.
NearestOfTwelve(x) ==
    IF x.kind # "num" \/ x.ds = <<>> THEN x
    ELSE [ReadDecimal([RoundFloat(x) EXCEPT !.neg = FALSE]) EXCEPT !.neg = x.neg]

\* What is read back of a suggestion: the text sanitized, the score as the
\* float nearest to its 12 digits.
ReadBack(s) == <<sanitize(s[1]), NearestOfTwelve(s[2])>>

\* ---------------------------------------------------------------- claims

\* C1 (as amended): on a word without children whose direct text is not empty
\* after sanitization, insert_suggestions with a non-empty list L of pairs
\* returns, and the extract_suggestions that follows returns one pair per
\* element of L, in L's order: the text sanitized and the score the float
\* nearest to the 12 significant digits it is printed with; the word's direct
\* text is then empty.
C1_RoundTripSanitized ==
    [][(/\ InsertedPairs
        /\ before[call.path].children = <<>>
        /\ sanitize(before[call.path].text) # <<>>
        /\ ExtractsNext)
       => /\ call.exc = NoExc
          /\ ret' = [val |-> [i \in 1..Len(call.arg) |-> ReadBack(call.arg[i])],
                     exc |-> NoExc]
          /\ tree'[call.path].text = <<>>]_vars

\* C1 witness: extract_suggestions has returned the two suggestions one insert
\* call gave a word that was parsed with text and without children: the scores
\* 1e-05 and 123456789012.0, printed with an exponent and read back as they
\* were, the second beside a text that the round trip changed.
C1_Witness ==
    /\ call.op = "extract_suggestions"
    /\ call.path \in WordIds
    /\ orig[call.path].children = <<>>
    /\ sanitize(orig[call.path].text) # <<>>
    /\ log[call.path].items = << <<Cat, ScoreSmall>>, <<CatWs, ScoreEleven>> >>
    /\ tree[call.path].children[1].children[1].attrib.title = U(<<"n", "l", "p", " ", "1",
      "e", "-", "0", "5">>)
    /\ tree[call.path].children[1].children[2].attrib.title = U(<<"n", "l", "p", " ", "1",
      ".", "2", "3", "4", "5", "6", "7", "8", "9", "0", "1", "2", "e", "+", "1", "1">>)
    /\ ret = [val |-> << <<Cat, ScoreSmall>>, <<Cat, ScoreEleven>> >>, exc |-> NoExc]
    /\ tree[call.path].text = <<>>

\* C1 as stated: on a word with direct text and no children, insert with a
\* non-empty list L of pairs and then extract returns exactly L, and the word's
\* direct text is empty.
C1_RoundTripExact ==
    [][(/\ InsertedPairs
        /\ before[call.path].children = <<>>
        /\ before[call.path].text # <<>>
        /\ ExtractsNext)
       => /\ ret' = [val |-> call.arg, exc |-> NoExc]
          /\ tree'[call.path].text = <<>>]_vars

\* C2 as stated, for a word parsed without children: an insert call either
\* returns having appended every candidate, or raises and leaves the tree as it
\* was before the call.
C2_AllOrNothing ==
    (call.op \in InsertOps /\ call.path \in WordIds /\ orig[call.path].children = <<>>) =>
        \/ call.exc = NoExc /\ CandCount(tree) = CandCount(before) + Len(call.arg)
        \/ call.exc # NoExc /\ tree = before

\* C3 as stated: after insert calls that all returned on a word that was Plain
\* when parsed (its direct text more than whitespace), the word has one
\* container and its candidates are the concatenation of the calls' lists, in
\* call order.
C3_Accumulates ==
    \A w \in WordIds :
        (PlainWord(orig[w]) /\ log[w].called /\ ~log[w].raised) =>
            /\ Cardinality(Containers(tree[w])) = 1
            /\ ContainerOf(tree[w]).children
                   = [i \in 1..Len(log[w].items) |-> InsElement(log[w].items[i])]

\* C4: every word, Plain when parsed, is at all times either Plain or
\* Annotated; an Annotated word stays Annotated; and a container is added only
\* to a word that has none.
C4_WordShape ==
    /\ [](\A w \in WordIds : Plain(tree[w]) \/ Annotated(tree[w]))
    /\ [][\A w \in WordIds :
            /\ Annotated(tree[w]) => Annotated(tree'[w])
            /\ Cardinality(Containers(tree'[w])) > Cardinality(Containers(tree[w]))
                   => Plain(tree[w])]_vars

\* C4 witness: an insert call has returned on a word that was already
\* Annotated, which now holds candidates of two calls in its one container.
C4_Witness ==
    /\ call.op = "insert_suggestions"
    /\ call.exc = NoExc
    /\ call.path \in WordIds
    /\ Plain(orig[call.path])
    /\ Annotated(before[call.path])
    /\ Annotated(tree[call.path])
    /\ Len(ContainerOf(before[call.path]).children) = 1
    /\ Len(ContainerOf(tree[call.path]).children) = 2

\* C5 as stated: extract_suggestions on a Plain word (its direct text more than
\* whitespace, no container among its children) raises, and changes nothing.
C5_PlainExtractFails ==
    (/\ call.op = "extract_suggestions"
     /\ call.path \in WordIds
     /\ PlainWord(tree[call.path]))
    => ret.exc # NoExc /\ tree = before

\* C9 as stated: the container insert_suggestions creates is the first child
\* of the word, where the later calls look for it.
C9_ContainerFirst ==
    \A w \in WordIds :
        Containers(tree[w]) # {} => IsContainer(tree[w].children[1])

\* The candidates before are the first candidates after, unchanged.
IsPrefix(p, q) == Len(p) <= Len(q) /\ SubSeq(q, 1, Len(p)) = p

\* C10 as stated, for a word parsed with direct text that is more than
\* whitespace: an insert call that returns changes only the word's direct text
\* and the children of the word's container, by appending; every other node is
\* as before; extract_suggestions changes nothing.
C10_Frame ==
    /\ (/\ call.op \in InsertOps /\ call.exc = NoExc /\ call.path \in WordIds
        /\ sanitize(orig[call.path].text) # <<>>) =>
           LET b == before[call.path]
               a == tree[call.path]
           IN  /\ \A v \in WordIds \ {call.path} : tree[v] = before[v]
               /\ a.tag = b.tag /\ a.attrib = b.attrib
               /\ SelectSeq(a.children, NotContainer) = SelectSeq(b.children, NotContainer)
               /\ Containers(b) # {} =>
                      /\ Containers(a) = Containers(b)
                      /\ IsPrefix(ContainerOf(b).children, ContainerOf(a).children)
    /\ call.op = "extract_suggestions" => tree = before

\* ---------------------------------------------------------------- bbox claims

\* The length of the run of whitespace of s that starts at index i.
RECURSIVE WsRun(_, _)
WsRun(s, i) == IF i <= Len(s) /\ s[i] \in Whitespace THEN 1 + WsRun(s, i + 1) ELSE 0

\* The integers, at most n, that follow index i of s, each after whitespace.
RECURSIVE WsInts(_, _, _)
WsInts(s, i, n) ==
    IF n = 0 THEN <<>>
    ELSE LET w == WsRun(s, i)
             d == DigitRun(s, i + w)
         IN  IF w > 0 /\ d > 0
             THEN <<NatVal(SubSeq(s, i + w, i + w + d - 1))>> \o WsInts(s, i + w + d, n - 1)
             ELSE <<>>

\* The index after n integers that follow index i of s, each after
\* whitespace, or 0 when there are fewer.
RECURSIVE WsIntsEnd(_, _, _)
WsIntsEnd(s, i, n) ==
    IF n = 0 THEN i
    ELSE IF WsRun(s, i) > 0 /\ DigitRun(s, i + WsRun(s, i)) > 0
         THEN WsIntsEnd(s, i + WsRun(s, i) + DigitRun(s, i + WsRun(s, i)), n - 1)
         ELSE 0

\* The field of the title ends at index i: the title ends there, or a ";"
\* follows, after whitespace or not.
FieldEnds(s, i) == i + WsRun(s, i) > Len(s) \/ s[i + WsRun(s, i)] = 59

\* A conforming bbox token starts at index j of the title: the marker bbox,
\* then exactly four whitespace-separated non-negative integers, and then the
\* end of the field.
TokenAt(title, j) ==
    /\ j + 3 <= Len(title)
    /\ SubSeq(title, j, j + 3) = BboxMarker
    /\ WsIntsEnd(title, j + 4, BboxInts) > 0
    /\ FieldEnds(title, WsIntsEnd(title, j + 4, BboxInts))

\* The bbox tokens of a title, each as its four integers.
BboxTokens(title) ==
    {WsInts(title, j + 4, BboxInts) : j \in {i \in 1..Len(title) : TokenAt(title, i)}}

\* The titles of the nodes xpath xp matches, in document order.
MatchedTitles(xp) ==
    LET es == Matches(hocr, xp) IN [k \in 1..Len(es) |-> hocr[es[k]].attrib.title]

\* Some node matched by an xpath of the call has a title without a bbox token.
SomeMalformed ==
    \E n \in 1..Len(bcall.xpaths) :
        LET ts == MatchedTitles(bcall.xpaths[n]) IN
        \E k \in 1..Len(ts) : BboxTokens(ts[k]) = {}

\* C6 as stated: when a matched node's title has no conforming bbox token the
\* call fails with MalformedGeometryError and returns no mapping; and a tuple
\* of a returned mapping is always the four integers of a bbox token of the
\* title of the node at its position.
C6_MalformedFails ==
    bcall.done =>
        /\ SomeMalformed => results.exc = "MalformedGeometryError" /\ results.map = <<>>
        /\ results.exc = NoExc =>
               \A xp \in DOMAIN results.map :
                   /\ Len(results.map[xp]) = Len(MatchedTitles(xp))
                   /\ \A k \in 1..Len(results.map[xp]) :
                          results.map[xp][k] \in BboxTokens(MatchedTitles(xp)[k])

\* C7 as stated: when every matched node's title has a bbox token, the call
\* returns, per xpath, one tuple per matched node, the four integers of the
\* token of that node's title.
C7_WellFormedYields ==
    (bcall.done /\ ~SomeMalformed) =>
        /\ results.exc = NoExc
        /\ \A xp \in DOMAIN results.map :
               /\ Len(results.map[xp]) = Len(MatchedTitles(xp))
               /\ \A k \in 1..Len(results.map[xp]) :
                      results.map[xp][k] \in BboxTokens(MatchedTitles(xp)[k])

\* The xpaths of a call without the repetitions.
RECURSIVE Dedup(_)
Dedup(xs) ==
    IF xs = <<>> THEN <<>>
    ELSE LET front == Dedup(SubSeq(xs, 1, Len(xs) - 1))
             x == xs[Len(xs)]
         IN  IF \E i \in 1..Len(front) : front[i] = x THEN front ELSE Append(front, x)

\* What the call with the xpath xp alone returns for it.
Alone(xp) == DictMap(extract_bboxes(hocr, <<xp>>).dict)[xp]

\* C8 as stated: the keys of the mapping a call returns are the xpaths given,
\* in the order given, and the list of each is what the call with that xpath
\* alone returns.
C8_NoInterference ==
    (bcall.done /\ results.exc = NoExc) =>
        /\ results.keys = Dedup(bcall.xpaths)
        /\ \A xp \in DOMAIN results.map : results.map[xp] = Alone(xp)

\* ---------------------------------------------------------------- what holds beside the refuted claims

\* C1 as amended but for the text: on a word with direct text, whitespace
\* only or not, and no children.  (It fails of the whitespace-only word, on
\* which insert_suggestions raises.)
RoundTripOfAnyText ==
    [][(/\ InsertedPairs
        /\ before[call.path].children = <<>>
        /\ before[call.path].text # <<>>
        /\ ExtractsNext)
       => /\ call.exc = NoExc
          /\ ret' = [val |-> [i \in 1..Len(call.arg) |-> ReadBack(call.arg[i])],
                     exc |-> NoExc]]_vars

\* The round trip returns exactly the list given when every text of it is
\* sanitized and every score has no more than 12 significant digits and is not
\* a subnormal double.
IsKept(s) ==
    /\ sanitize(s[1]) = s[1]
    /\ s[2].kind = "num" => Len(s[2].ds) <= FloatPrec /\ s[2].e >= 0 - MaxExactExp

RoundTripOfKept ==
    [][(/\ InsertedPairs
        /\ before[call.path].children = <<>>
        /\ sanitize(before[call.path].text) # <<>>
        /\ \A i \in 1..Len(call.arg) : IsKept(call.arg[i])
        /\ ExtractsNext)
       => ret' = [val |-> call.arg, exc |-> NoExc]]_vars

\* A word parsed without children: C3's accumulation holds of it.
AccumulatesWithoutOtherChildren ==
    \A w \in WordIds :
        (PlainWord(orig[w]) /\ orig[w].children = <<>> /\ log[w].called /\ ~log[w].raised) =>
            /\ Cardinality(Containers(tree[w])) = 1
            /\ ContainerOf(tree[w]).children
                   = [i \in 1..Len(log[w].items) |-> InsElement(log[w].items[i])]

\* A word parsed without children: the container is its first child, and
\* C10's frame holds of the calls on it.
FrameWithoutOtherChildren ==
    (/\ call.op \in InsertOps /\ call.exc = NoExc /\ call.path \in WordIds
     /\ PlainWord(orig[call.path]) /\ orig[call.path].children = <<>>) =>
        LET b == before[call.path]
            a == tree[call.path]
        IN  /\ \A v \in WordIds \ {call.path} : tree[v] = before[v]
            /\ a.tag = b.tag /\ a.attrib = b.attrib
            /\ Containers(a) = {1} /\ Len(a.children) = 1
            /\ Containers(b) # {} =>
                   IsPrefix(ContainerOf(b).children, ContainerOf(a).children)

\* A call raises, and returns no mapping, when the pattern does not match the
\* title of a node an xpath matches; the exception is AttributeError.
UnmatchedRaises ==
    bcall.done =>
        ((\E n \in 1..Len(bcall.xpaths) :
              \E k \in 1..Len(MatchedTitles(bcall.xpaths[n])) :
                  ~BboxMatch(MatchedTitles(bcall.xpaths[n])[k]).ok)
         <=> (results.exc = "AttributeError" /\ results.map = <<>> /\ results.keys = <<>>))

\* The titles whose token is separated by single spaces yield its integers.
SingleSpaceYields ==
    (bcall.done /\ \A xp \in DOMAIN results.map : \A k \in 1..Len(MatchedTitles(xp)) :
                       MatchedTitles(xp)[k] \in {TGood, TMeta}) =>
        \A xp \in DOMAIN results.map :
            results.map[xp] = [k \in 1..Len(MatchedTitles(xp)) |->
                                  IF MatchedTitles(xp)[k] = TGood
                                  THEN <<10, 20, 30, 40>> ELSE <<1, 2, 3, 4>>]

\* The keys of a returned mapping are, as a set, the xpaths given.
KeysAreTheXpaths ==
    (bcall.done /\ results.exc = NoExc) =>
        /\ DOMAIN results.map = {bcall.xpaths[i] : i \in 1..Len(bcall.xpaths)}
        /\ \A xp \in DOMAIN results.map : results.map[xp] = Alone(xp)

====
